---- MODULE Spec2Model ----
(***************************************************************************)
(* A model of the arrayref crate: the fixed-length view macros of          *)
(* src/src/lib.rs (array_ref!, array_mut_ref!, array_refs!,                *)
(* mut_array_refs!) and the reserve family of src/src/reserve.rs.          *)
(*                                                                         *)
(* A slice or array reference is a pair [ptr, len]: ptr is the 0-based     *)
(* position of its first element in the caller's buffer `data`, len its    *)
(* length.  A view never holds elements of its own; its content is read    *)
(* from `data` through Deref, so aliasing is what the model computes.      *)
(* usize is IndexBits wide.  `a + b` and `a - b` on usize panic when the   *)
(* build has overflow checks (debug profile) and wrap modulo 2^IndexBits   *)
(* when it has none (release profile); both builds are modelled.           *)
(***************************************************************************)
EXTENDS Integers, Sequences, FiniteSets, TLC

\* ---- bounds --------------------------------------------------------------
IndexBits == 2          \* width of usize in the model
MaxBuf == 3             \* longest buffer
MaxParts == 2           \* most lengths given to array_refs! / mut_array_refs!
MaxCalls == 3           \* most views reserved from one handle

Modulus == 2 ^ IndexBits
MaxIdx == Modulus - 1                       \* usize::MAX
Usize == 0 .. MaxIdx
BufLens == {n \in 0 .. MaxBuf : n <= MaxIdx}
\* The crate is generic in the element type T and never reads an element, so a
\* buffer whose elements are pairwise distinct (data[i] = i, as the tests of
\* lib.rs fill theirs) tells every position from every other.
Iota(n) == [i \in 1 .. n |-> i - 1]
Buffers == {Iota(n) : n \in BufLens}
\* a written value is one no initial buffer holds
WriteVals == {MaxBuf}

NoVal == 0 - 1          \* no value / the address of the static empty slice
Poison == 0 - 2         \* what a read outside the buffer yields

VARIABLES
    data,               \* the caller's buffer B
    overflow_checks,    \* TRUE: debug profile, FALSE: release profile
    handle,             \* "none": B is used directly; "shared": through a
                        \* &mut &[T] handle; "mut": through a &mut &mut [T]
    heap,               \* the slice the handle currently denotes
    views,              \* the views the caller holds, in the order returned
    out,                \* the last call: its arguments and its outcome
    wr,                 \* the last write through a mutable view
    panicked            \* a call has panicked: the caller's run has ended

vars == <<data, overflow_checks, handle, heap, views, out, wr, panicked>>

\* ---- the language's primitives used by the crate ---------------------------
Panic == [ok |-> FALSE]

\* `a + b` on usize
usize_add(a, b, checks) ==
    IF a + b > MaxIdx
    THEN IF checks THEN Panic ELSE [ok |-> TRUE, val |-> (a + b) % Modulus]
    ELSE [ok |-> TRUE, val |-> a + b]

\* `a - b` on usize
usize_sub(a, b, checks) ==
    IF a < b
    THEN IF checks THEN Panic ELSE [ok |-> TRUE, val |-> (a - b + Modulus) % Modulus]
    ELSE [ok |-> TRUE, val |-> a - b]

\* `s[start..end]`: panics when start > end or end > s.len()
index_range(s, start, end) ==
    IF start > end THEN Panic
    ELSE IF end > s.len THEN Panic
    ELSE [ok |-> TRUE, slice |-> [ptr |-> s.ptr + start, len |-> end - start]]

\* `s.split_at(mid)` / `s.split_at_mut(mid)`: panics when mid > s.len()
split_at(s, mid) ==
    IF mid > s.len THEN Panic
    ELSE [ok |-> TRUE,
          left |-> [ptr |-> s.ptr, len |-> mid],
          right |-> [ptr |-> s.ptr + mid, len |-> s.len - mid]]

\* `&[]` / `&mut []`: the placeholder mem::replace leaves in the handle
EmptySlice == [ptr |-> NoVal, len |-> 0]

\* the whole buffer as a slice
Whole(b) == [ptr |-> 0, len |-> Len(b)]

\* the content seen through view v of buffer b
DerefIn(b, v) ==
    [i \in 1 .. v.len |->
        IF v.ptr >= 0 /\ v.ptr + i <= Len(b) THEN b[v.ptr + i] ELSE Poison]

Deref(v) == DerefIn(data, v)

\* the buffer positions (0-based) view v covers
Range(v) == {v.ptr + i : i \in 0 .. v.len - 1}

\* ---- src/src/lib.rs --------------------------------------------------------

\* as array_ref_as_array, but casting the pointer of $arr, not of the sub-slice
array_ref_as_array_of_base(slice, len) == [ptr |-> 0, len |-> len]

\* array_ref!: `as_array(slice)` casts slice.as_ptr() to *const [_; $len]
array_ref_as_array(slice, len) == [ptr |-> slice.ptr, len |-> len]

\* as array_ref, but checking only the end index against the length of $arr
array_ref_end_only(arr, offset, len, checks) ==
    LET e == usize_add(offset, len, checks) IN
    IF ~e.ok THEN [ok |-> FALSE, end |-> NoVal]
    ELSE IF e.val > arr.len THEN [ok |-> FALSE, end |-> e.val]
    ELSE [ok |-> TRUE, end |-> e.val,
          ref |-> array_ref_as_array([ptr |-> arr.ptr + offset, len |-> len], len)]

\* array_ref!($arr, $offset, $len):
\*   let slice = & $arr[$offset..$offset + $len];  as_array(slice)
\* `end` is the end index the addition produced (NoVal when it panicked).
array_ref(arr, offset, len, checks) ==
    LET e == usize_add(offset, len, checks) IN
    IF ~e.ok THEN [ok |-> FALSE, end |-> NoVal]
    ELSE LET sl == index_range(arr, offset, e.val) IN
         IF ~sl.ok THEN [ok |-> FALSE, end |-> e.val]
         ELSE [ok |-> TRUE, end |-> e.val, ref |-> array_ref_as_array(sl.slice, len)]

\* array_mut_ref!: `as_array(slice)` casts slice.as_mut_ptr() to *mut [_; $len]
array_mut_ref_as_array(slice, len) == [ptr |-> slice.ptr, len |-> len]

\* as array_mut_ref, but taking the sub-slice without a bounds check
array_mut_ref_unchecked(arr, offset, len, checks) ==
    LET e == usize_add(offset, len, checks) IN
    IF ~e.ok THEN [ok |-> FALSE, end |-> NoVal]
    ELSE [ok |-> TRUE, end |-> e.val,
          ref |-> array_mut_ref_as_array([ptr |-> arr.ptr + offset, len |-> len], len)]

\* array_mut_ref!($arr, $offset, $len):
\*   let slice = &mut $arr[$offset..$offset + $len];  as_array(slice)
array_mut_ref(arr, offset, len, checks) ==
    LET e == usize_add(offset, len, checks) IN
    IF ~e.ok THEN [ok |-> FALSE, end |-> NoVal]
    ELSE LET sl == index_range(arr, offset, e.val) IN
         IF ~sl.ok THEN [ok |-> FALSE, end |-> e.val]
         ELSE [ok |-> TRUE, end |-> e.val, ref |-> array_mut_ref_as_array(sl.slice, len)]

\* the repetition `$( { let aref = &*(p as *const [T; $len]);
\*                      p = p.offset($len); aref } ),*`
RECURSIVE as_arrays_from(_, _)
as_arrays_from(p, lens) ==
    IF lens = <<>> THEN <<>>
    ELSE <<[ptr |-> p, len |-> Head(lens)]>> \o as_arrays_from(p + Head(lens), Tail(lens))

\* as array_refs_as_arrays, but without `p = p.offset($len)`
array_refs_as_arrays_no_advance(a, lens) ==
    [j \in 1 .. Len(lens) |-> [ptr |-> a.ptr, len |-> lens[j]]]

\* array_refs!: `as_arrays(a)`, starting at p = a.as_ptr()
array_refs_as_arrays(a, lens) == as_arrays_from(a.ptr, lens)

\* as mut_array_refs_as_arrays, but without `p = p.offset($len)`
mut_array_refs_as_arrays_no_advance(a, lens) ==
    [j \in 1 .. Len(lens) |-> [ptr |-> a.ptr, len |-> lens[j]]]

\* mut_array_refs!: `as_arrays(a)`, starting at p = a.as_mut_ptr()
mut_array_refs_as_arrays(a, lens) == as_arrays_from(a.ptr, lens)

\* `$( $len + )* 0`: the length of the array type as_arrays takes
RECURSIVE SumLens(_)
SumLens(lens) == IF lens = <<>> THEN 0 ELSE Head(lens) + SumLens(Tail(lens))

\* ---- src/src/reserve.rs ----------------------------------------------------

\* as reserve, but putting the view back into the handle when the split fails
reserve_restoring(h, len) ==
    LET sp == split_at(h, len) IN
    IF ~sp.ok THEN [ok |-> FALSE, heap |-> h]
    ELSE [ok |-> TRUE, ret |-> sp.left, heap |-> sp.right]

\* reserve(heap, len)
reserve(h, len) ==
    LET tmp == h                     \* mem::replace(&mut *heap, &[])
        sp == split_at(tmp, len) IN
    IF ~sp.ok THEN [ok |-> FALSE, heap |-> EmptySlice]
    ELSE [ok |-> TRUE, ret |-> sp.left, heap |-> sp.right]

\* as reserve_tail, but splitting at len instead of tmp.len() - len
reserve_tail_split_at_len(h, len, checks) ==
    LET sp == split_at(h, len) IN
    IF ~sp.ok THEN [ok |-> FALSE, heap |-> EmptySlice]
    ELSE [ok |-> TRUE, ret |-> sp.right, heap |-> sp.left]

\* reserve_tail(heap, len)
reserve_tail(h, len, checks) ==
    LET tmp == h                     \* mem::replace(&mut *heap, &[])
        l == usize_sub(tmp.len, len, checks) IN
    IF ~l.ok THEN [ok |-> FALSE, heap |-> EmptySlice]
    ELSE LET sp == split_at(tmp, l.val) IN
         IF ~sp.ok THEN [ok |-> FALSE, heap |-> EmptySlice]
         ELSE [ok |-> TRUE, ret |-> sp.right, heap |-> sp.left]

\* reserve_mut(heap, len)
reserve_mut(h, len) ==
    LET tmp == h                     \* mem::replace(&mut *heap, &mut [])
        sp == split_at(tmp, len) IN
    IF ~sp.ok THEN [ok |-> FALSE, heap |-> EmptySlice]
    ELSE [ok |-> TRUE, ret |-> sp.left, heap |-> sp.right]

\* as reserve_tail_mut, but with tmp.len().saturating_sub(len)
reserve_tail_mut_saturating(h, len, checks) ==
    LET l == IF h.len < len THEN 0 ELSE h.len - len
        sp == split_at(h, l) IN
    IF ~sp.ok THEN [ok |-> FALSE, heap |-> EmptySlice]
    ELSE [ok |-> TRUE, ret |-> sp.right, heap |-> sp.left]

\* reserve_tail_mut(heap, len)
reserve_tail_mut(h, len, checks) ==
    LET tmp == h                     \* mem::replace(&mut *heap, &mut [])
        l == usize_sub(tmp.len, len, checks) IN
    IF ~l.ok THEN [ok |-> FALSE, heap |-> EmptySlice]
    ELSE LET sp == split_at(tmp, l.val) IN
         IF ~sp.ok THEN [ok |-> FALSE, heap |-> EmptySlice]
         ELSE [ok |-> TRUE, ret |-> sp.right, heap |-> sp.left]

\* reserve_fixed!($heap, $len): array_ref![::arrayref::reserve($heap,$len),0,$len]
reserve_fixed(h, len, checks) ==
    LET r == reserve(h, len) IN
    IF ~r.ok THEN r
    ELSE LET a == array_ref(r.ret, 0, len, checks) IN
         IF ~a.ok THEN [ok |-> FALSE, heap |-> r.heap]
         ELSE [ok |-> TRUE, ret |-> a.ref, heap |-> r.heap]

\* reserve_tail_fixed!($heap, $len): array_ref![::arrayref::reserve($heap,$len),0,$len]
reserve_tail_fixed(h, len, checks) ==
    LET r == reserve(h, len) IN
    IF ~r.ok THEN r
    ELSE LET a == array_ref(r.ret, 0, len, checks) IN
         IF ~a.ok THEN [ok |-> FALSE, heap |-> r.heap]
         ELSE [ok |-> TRUE, ret |-> a.ref, heap |-> r.heap]

\* as reserve_fixed_mut, but leaving the handle as it was
reserve_fixed_mut_keeping(h, len, checks) ==
    LET r == reserve_mut(h, len) IN
    IF ~r.ok THEN r
    ELSE LET a == array_mut_ref(r.ret, 0, len, checks) IN
         IF ~a.ok THEN [ok |-> FALSE, heap |-> h]
         ELSE [ok |-> TRUE, ret |-> a.ref, heap |-> h]

\* reserve_fixed_mut!($heap, $len):
\*   array_mut_ref![::arrayref::reserve_mut($heap,$len),0,$len]
reserve_fixed_mut(h, len, checks) ==
    LET r == reserve_mut(h, len) IN
    IF ~r.ok THEN r
    ELSE LET a == array_mut_ref(r.ret, 0, len, checks) IN
         IF ~a.ok THEN [ok |-> FALSE, heap |-> r.heap]
         ELSE [ok |-> TRUE, ret |-> a.ref, heap |-> r.heap]

\* reserve_tail_fixed_mut!($heap, $len):
\*   array_mut_ref![::arrayref::reserve_tail_mut($heap,$len),0,$len]
reserve_tail_fixed_mut(h, len, checks) ==
    LET r == reserve_tail_mut(h, len, checks) IN
    IF ~r.ok THEN r
    ELSE LET a == array_mut_ref(r.ret, 0, len, checks) IN
         IF ~a.ok THEN [ok |-> FALSE, heap |-> r.heap]
         ELSE [ok |-> TRUE, ret |-> a.ref, heap |-> r.heap]

\* ---- the state machine -----------------------------------------------------
NoWrite == [view |-> 0, index |-> 0, value |-> 0, before |-> <<>>]

NoCall ==
    [op |-> "none", ok |-> TRUE, offset |-> 0, len |-> 0, lens |-> <<>>,
     end |-> NoVal, heap0 |-> EmptySlice, ret |-> <<>>]

\* the lists of lengths a caller gives to array_refs! / mut_array_refs!
LenLists(n) == UNION {[1 .. k -> 0 .. n] : k \in 1 .. MaxParts}

Init ==
    /\ data \in Buffers
    /\ overflow_checks \in BOOLEAN
    /\ handle \in {"none", "shared", "mut"}
    /\ heap = Whole(data)
    /\ views = <<>>
    /\ out = NoCall
    /\ wr = NoWrite
    /\ panicked = FALSE

\* a call on the buffer itself: the views of the previous call are given up
Called(op, offset, len, lens, r, ret) ==
    /\ ~panicked
    /\ out' = [op |-> op, ok |-> r.ok, offset |-> offset, len |-> len, lens |-> lens,
               end |-> r.end, heap0 |-> heap, ret |-> ret]
    /\ views' = ret
    /\ panicked' = (panicked \/ ~r.ok)
    /\ wr' = NoWrite
    /\ UNCHANGED <<data, overflow_checks, handle, heap>>

ArrayRef(offset, len) ==
    /\ handle = "none"
    /\ LET r == array_ref(Whole(data), offset, len, overflow_checks) IN
       Called("array_ref", offset, len, <<>>, r, IF r.ok THEN <<r.ref>> ELSE <<>>)

ArrayMutRef(offset, len) ==
    /\ handle = "none"
    /\ LET r == array_mut_ref(Whole(data), offset, len, overflow_checks) IN
       Called("array_mut_ref", offset, len, <<>>, r, IF r.ok THEN <<r.ref>> ELSE <<>>)

ArrayRefs(lens) ==
    /\ handle = "none"
    /\ SumLens(lens) = Len(data)
    /\ Called("array_refs", 0, 0, lens, [ok |-> TRUE, end |-> NoVal],
              array_refs_as_arrays(Whole(data), lens))

MutArrayRefs(lens) ==
    /\ handle = "none"
    /\ SumLens(lens) = Len(data)
    /\ Called("mut_array_refs", 0, 0, lens, [ok |-> TRUE, end |-> NoVal],
              mut_array_refs_as_arrays(Whole(data), lens))

\* the views the caller holds are mutable references
ViewsMutable ==
    handle = "none" /\ out.op \in {"array_mut_ref", "mut_array_refs"}

\* `view[i] = v` through the j-th view held
Write(j, i, v) ==
    /\ ~panicked
    /\ ViewsMutable
    /\ j \in 1 .. Len(views)
    /\ i \in 0 .. views[j].len - 1
    /\ LET at == views[j].ptr + i + 1 IN
       data' = IF at \in 1 .. Len(data) THEN [data EXCEPT ![at] = v] ELSE data
    /\ wr' = [view |-> j, index |-> i, value |-> v, before |-> data]
    /\ UNCHANGED <<overflow_checks, handle, heap, views, out, panicked>>

\* a call on the handle: the handle is rewritten, the view returned is kept
Reserved(op, len, r) ==
    /\ ~panicked
    /\ Len(views) < MaxCalls
    /\ heap' = r.heap
    /\ views' = IF r.ok THEN Append(views, r.ret) ELSE views
    /\ out' = [op |-> op, ok |-> r.ok, offset |-> 0, len |-> len, lens |-> <<>>,
               end |-> NoVal, heap0 |-> heap, ret |-> IF r.ok THEN <<r.ret>> ELSE <<>>]
    /\ panicked' = (panicked \/ ~r.ok)
    /\ wr' = NoWrite
    /\ UNCHANGED <<data, overflow_checks, handle>>

Reserve(len) ==
    handle = "shared" /\ Reserved("reserve", len, reserve(heap, len))

ReserveTail(len) ==
    handle = "shared" /\ Reserved("reserve_tail", len, reserve_tail(heap, len, overflow_checks))

ReserveFixed(len) ==
    handle = "shared" /\ Reserved("reserve_fixed", len, reserve_fixed(heap, len, overflow_checks))

ReserveTailFixed(len) ==
    handle = "shared"
    /\ Reserved("reserve_tail_fixed", len, reserve_tail_fixed(heap, len, overflow_checks))

ReserveMut(len) ==
    handle = "mut" /\ Reserved("reserve_mut", len, reserve_mut(heap, len))

ReserveTailMut(len) ==
    handle = "mut"
    /\ Reserved("reserve_tail_mut", len, reserve_tail_mut(heap, len, overflow_checks))

ReserveFixedMut(len) ==
    handle = "mut"
    /\ Reserved("reserve_fixed_mut", len, reserve_fixed_mut(heap, len, overflow_checks))

ReserveTailFixedMut(len) ==
    handle = "mut"
    /\ Reserved("reserve_tail_fixed_mut", len,
                reserve_tail_fixed_mut(heap, len, overflow_checks))

Next ==
    \/ \E offset \in Usize, len \in Usize : ArrayRef(offset, len)
    \/ \E offset \in Usize, len \in Usize : ArrayMutRef(offset, len)
    \/ \E lens \in LenLists(Len(data)) : ArrayRefs(lens)
    \/ \E lens \in LenLists(Len(data)) : MutArrayRefs(lens)
    \/ \E j \in 1 .. MaxParts, i \in 0 .. MaxBuf, v \in WriteVals : Write(j, i, v)
    \/ \E len \in Usize : Reserve(len)
    \/ \E len \in Usize : ReserveTail(len)
    \/ \E len \in Usize : ReserveFixed(len)
    \/ \E len \in Usize : ReserveTailFixed(len)
    \/ \E len \in Usize : ReserveMut(len)
    \/ \E len \in Usize : ReserveTailMut(len)
    \/ \E len \in Usize : ReserveFixedMut(len)
    \/ \E len \in Usize : ReserveTailFixedMut(len)

Spec == Init /\ [][Next]_vars

\* ---- properties ------------------------------------------------------------
IsArrayRef == out.op \in {"array_ref", "array_mut_ref"}
IsArrayRefs == out.op \in {"array_refs", "mut_array_refs"}
IsFront == out.op \in {"reserve", "reserve_mut"}
IsTail == out.op \in {"reserve_tail", "reserve_tail_mut"}
IsSliceReserve == IsFront \/ IsTail
IsTailFixed == out.op \in {"reserve_tail_fixed", "reserve_tail_fixed_mut"}

\* N1 + ... + Nj
PrefixSum(lens, j) == SumLens(SubSeq(lens, 1, j))

RECURSIVE Concat(_)
Concat(ss) == IF ss = <<>> THEN <<>> ELSE Head(ss) \o Concat(Tail(ss))

Contents(vs) == Concat([j \in 1 .. Len(vs) |-> Deref(vs[j])])

PairwiseDisjoint(vs) ==
    \A j, k \in 1 .. Len(vs) : j < k => Range(vs[j]) \cap Range(vs[k]) = {}

\* C1: array_ref!(B, offset, N) and array_mut_ref!(B, offset, N) with
\* offset + N <= len(B) succeed and return a view of length N whose element i
\* is B[offset + i]: the view aliases B, nothing is copied, shifted or cut.
C1_InBoundsView ==
    (IsArrayRef /\ out.offset + out.len <= Len(data)) =>
        /\ out.ok
        /\ Len(out.ret) = 1
        /\ views = out.ret
        /\ out.ret[1].len = out.len
        /\ Len(Deref(out.ret[1])) = out.len
        /\ \A i \in 0 .. out.len - 1 :
              Deref(out.ret[1])[i + 1] = data[out.offset + i + 1]

C1_Witness ==
    /\ out.op = "array_ref" /\ out.ok
    /\ out.offset = 1 /\ out.len = 2 /\ Len(data) = 3
    /\ Deref(out.ret[1]) = <<1, 2>>

\* C2: array_ref! and array_mut_ref! with offset + N > len(B) panic and
\* return no view, whether offset <= len(B) < offset + N or offset > len(B).
C2_OutOfBoundsPanics ==
    (IsArrayRef /\ out.offset + out.len > Len(data)) =>
        ~out.ok /\ out.ret = <<>> /\ views = <<>> /\ panicked

C2_Witness ==
    /\ out.op = "array_mut_ref" /\ ~out.ok /\ views = <<>>
    /\ out.offset <= Len(data) /\ out.offset >= 1
    /\ out.offset + out.len > Len(data)
    /\ out.offset + out.len <= MaxIdx

C4_Partition ==
    IsArrayRefs =>
        /\ out.ok
        /\ views = out.ret
        /\ Len(out.ret) = Len(out.lens)
        /\ \A j \in 1 .. Len(out.lens) :
              /\ out.ret[j].len = out.lens[j]
              /\ out.ret[j].ptr = PrefixSum(out.lens, j - 1)
              /\ LET a == array_ref(Whole(data), PrefixSum(out.lens, j - 1),
                                    out.lens[j], overflow_checks)
                 IN a.ok /\ a.ref = out.ret[j]
        /\ PairwiseDisjoint(out.ret)
        /\ UNION {Range(out.ret[j]) : j \in 1 .. Len(out.ret)} = 0 .. Len(data) - 1
        /\ Contents(out.ret) = data

C4_Witness ==
    /\ out.op = "array_refs"
    /\ Len(out.lens) = 2 /\ out.lens[1] >= 1 /\ out.lens[2] >= 2
    /\ Deref(views[2]) = <<1, 2>>

\* C5: reserve / reserve_mut with len <= len(V) return the first len elements
\* of the handle's view V and leave the suffix in the handle; reserve_tail /
\* reserve_tail_mut return the last len elements and leave the prefix.  The
\* handle shrinks by len and returned and handle together are V again.
C5_RoundTrip ==
    (IsSliceReserve /\ out.len <= out.heap0.len) =>
        /\ out.ok
        /\ Len(out.ret) = 1
        /\ out.ret[1].len = out.len
        /\ heap.len = out.heap0.len - out.len
        /\ IsFront =>
              /\ Deref(out.ret[1]) = SubSeq(Deref(out.heap0), 1, out.len)
              /\ Deref(out.ret[1]) \o Deref(heap) = Deref(out.heap0)
        /\ IsTail =>
              /\ Deref(out.ret[1]) =
                    SubSeq(Deref(out.heap0), out.heap0.len - out.len + 1, out.heap0.len)
              /\ Deref(heap) \o Deref(out.ret[1]) = Deref(out.heap0)

C5_Witness ==
    /\ out.op = "reserve_tail" /\ out.ok
    /\ out.heap0.len = 3 /\ out.len = 1
    /\ Deref(out.ret[1]) = <<2>> /\ Deref(heap) = <<0, 1>>

\* C6: reserve_tail_fixed!(handle, N) and reserve_tail_fixed_mut!(handle, N)
\* with N <= len(V) return the last N elements of the handle's view V and
\* leave the prefix V[0 .. len(V) - N) in the handle.
C6_TailFixedTakesTail ==
    (IsTailFixed /\ out.len <= out.heap0.len) =>
        /\ out.ok
        /\ Len(out.ret) = 1
        /\ Deref(out.ret[1]) =
              SubSeq(Deref(out.heap0), out.heap0.len - out.len + 1, out.heap0.len)
        /\ Deref(heap) = SubSeq(Deref(out.heap0), 1, out.heap0.len - out.len)

\* C7: reserve, reserve_mut, reserve_tail and reserve_tail_mut with
\* len > len(V) panic and return no view; the tail variants' len(V) - len
\* never yields a split point that is accepted.
C7_TooLongPanics ==
    (IsSliceReserve /\ out.len > out.heap0.len) =>
        ~out.ok /\ out.ret = <<>> /\ panicked

C7_Witness ==
    /\ out.op = "reserve_tail" /\ ~overflow_checks
    /\ out.heap0.len >= 1 /\ out.len > out.heap0.len
    /\ ~out.ok /\ panicked

\* C8: after any sequence of successful reserve calls, of any mix, the views
\* returned and the handle's view are pairwise disjoint ranges of B whose
\* union is B; with the handle empty the returned lengths add up to len(B).
C8_DisjointCover ==
    (handle # "none" /\ ~panicked) =>
        /\ PairwiseDisjoint(Append(views, heap))
        /\ UNION {Range(v) : v \in {views[j] : j \in 1 .. Len(views)} \cup {heap}}
              = 0 .. Len(data) - 1
        /\ heap.len = 0 => SumLens([j \in 1 .. Len(views) |-> views[j].len]) = Len(data)

C8_Witness ==
    /\ handle = "mut" /\ ~panicked
    /\ Len(data) = 3 /\ heap.len = 0
    /\ Len(views) = 3
    /\ \A j \in 1 .. 3 : views[j].len = 1
    /\ views[1].ptr = 2 /\ views[2].ptr = 0
    /\ out.op = "reserve_fixed_mut"

\* C9: a write of v at index i through a mutable fixed view starting at
\* offset s of B makes B[s + i] = v and changes no other element of B, so no
\* other view of a mutable partition sees it.
C9_WriteFrame ==
    wr.view # 0 =>
        LET s == IF out.op = "array_mut_ref" THEN out.offset
                 ELSE PrefixSum(out.lens, wr.view - 1)
            at == s + wr.index + 1
        IN /\ Len(data) = Len(wr.before)
           /\ at \in 1 .. Len(data)
           /\ data[at] = wr.value
           /\ \A p \in 1 .. Len(data) : p # at => data[p] = wr.before[p]
           /\ \A k \in 1 .. Len(views) :
                 k # wr.view => Deref(views[k]) = DerefIn(wr.before, views[k])

C9_Witness ==
    /\ out.op = "mut_array_refs" /\ Len(out.lens) = 2
    /\ out.lens[1] >= 1 /\ out.lens[2] >= 1
    /\ wr.view = 2 /\ wr.index = 0
    /\ data[out.lens[1] + 1] = wr.value
    /\ wr.before[out.lens[1] + 1] # wr.value

\* C10: a reserve, reserve_mut, reserve_tail or reserve_tail_mut that fails
\* leaves the empty placeholder in the handle, not the view it held before
\* the call; one that succeeds leaves the true remainder, never the
\* placeholder.
C10_FailedCallEmptiesHandle ==
    IsSliceReserve =>
        /\ ~out.ok => heap = EmptySlice /\ heap.len = 0
        /\ out.len > out.heap0.len => heap = EmptySlice
        /\ (out.ok /\ IsFront) =>
              heap = [ptr |-> out.heap0.ptr + out.len, len |-> out.heap0.len - out.len]
        /\ (out.ok /\ IsTail) =>
              heap = [ptr |-> out.heap0.ptr, len |-> out.heap0.len - out.len]
        /\ out.ok => heap.ptr # NoVal

C10_Witness ==
    /\ out.op = "reserve" /\ ~out.ok
    /\ out.heap0.len = 2 /\ out.len = 3
    /\ heap = EmptySlice /\ heap # out.heap0

====
